---- MODULE Spec2Model ----
(***************************************************************************)
(* pocket-joe: the option-invocation engine of memory_runtime.py           *)
(* (call_options_in_parallel, execute_option, InMemoryRunner._bind_strategy *)
(* .bound) and its twin in policy_wrappers.py.                             *)
(*                                                                         *)
(* One bound policy call is a frame.  The frame of the top-level call has  *)
(* the empty path; the frame of the i-th pending option of frame p has the *)
(* path p \o <<i>> and models the asyncio task gather() makes for          *)
(* execute_option(options[i]), the bound call of the named policy          *)
(* included.  Sibling tasks interleave at their await points.              *)
(***************************************************************************)
EXTENDS Integers, Sequences, FiniteSets, TLC

\* ---------------------------------------------------------------- bounds
\* longest message list the top-level policy returns
MaxLen == 2
\* deepest nesting of bound calls (the engine itself has no cap)
MaxDepth == 2
\* number of decorations and registrations made in a run
MaxOps == 3
\* number of contexts constructed in a run
MaxCtx == 3
\* largest max_turns given to loop_wrapper
MaxTurns == 3
\* length of the observation list given to an LLM adapter
MaxObs == 3
\* largest number of keys in an argument object handed to unpack_params
MaxKeys == 2

\* ------------------------------------------------------------ data model
\* Python's None (Message.tool_id defaults to it, dict.get returns it)
NoneVal == "<None>"

\* core.py Message: a frozen dataclass of five fields
Message(actor, type, payload, tool_id, id) ==
    [actor |-> actor, type |-> type, payload |-> payload,
     tool_id |-> tool_id, id |-> id]

\* the payload dict of a text message: {"content": c}
TextPayload(c) == [policy |-> NoneVal, args |-> NoneVal, content |-> c]

\* the payload dict of an action_call: {"policy": name, "payload": args};
\* args is "dict" for a mapping, "scalar" or "list" otherwise, NoneVal if absent
CallPayload(name, args) == [policy |-> name, args |-> args, content |-> NoneVal]

\* @dataclass(frozen=True): msg.field = value raises FrozenInstanceError and
\* leaves the message as it was
AssignFieldUnfrozen(msg, field, value) ==
    [raised |-> FALSE, msg |-> [msg EXCEPT ![field] = value]]
AssignField(msg, field, value) == [raised |-> TRUE, msg |-> msg]

\* dataclasses.replace(msg, type="action_result", tool_id=option.tool_id)
ReplaceNoType(msg, option) == [msg EXCEPT !.tool_id = option.tool_id]
ReplaceNoToolId(msg, option) == [msg EXCEPT !.type = "action_result"]
Replace(msg, option) ==
    [msg EXCEPT !.type = "action_result", !.tool_id = option.tool_id]

\* ------------------------------------------------------------ the context
\* the policies an application context binds as attributes
\* (self.llm = self._bind(...), self.web_search = self._bind(...), ...)
BoundPolicies == {"agent", "planner", "search", "delete_all"}

\* what else getattr finds on a context: the methods of BaseContext and the
\* attributes __init__ sets
ContextMethods == {"get_policy", "_bind", "get_ctx"}
ContextFields == {"_runner", "_option_to_bound_policy"}

\* the options kwarg handed to the top-level policy: "Set of allowed
\* options the LLM can call"
AllowList == {"search"}

\* policy_name = str(payload_dict.get("policy"))
PolicyName(option) ==
    IF option.payload.policy = NoneVal THEN "None" ELSE option.payload.policy

\* isinstance(args, dict)
IsDictOrList(args) == args \in {"dict", "list"}
IsDict(args) == args = "dict"

\* getattr(ctx, policy_name) succeeds
HasAttrAlways(name) == TRUE
HasAttr(name) == name \in BoundPolicies \cup ContextMethods \cup ContextFields

\* func(**args) can be called: the attribute found is a function or a
\* method, not one of the objects __init__ stored
Callable(name) == name \notin ContextFields

\* ------------------------------------------------------------- the engine
\* completed_ids = {msg.tool_id for msg in messages if msg.type == "action_result"}
CompletedIds(messages) ==
    {messages[i].tool_id : i \in {j \in 1..Len(messages) : messages[j].type = "action_result"}}

\* options = [msg for msg in messages if msg.type == "action_call"
\*            and msg.tool_id not in completed_ids]
OptionsNoDedup(messages) ==
    SelectSeq(messages, LAMBDA m : m.type = "action_call")
Options(messages) ==
    SelectSeq(messages, LAMBDA m : m.type = "action_call"
                                   /\ m.tool_id \notin CompletedIds(messages))

\* the loop of execute_option over selected_actions building final_actions
FinalActionsUnstamped(option, selected_actions) == selected_actions
FinalActionsResultsKept(option, selected_actions) ==
    [i \in 1..Len(selected_actions) |->
        IF option.type = "action_call" /\ selected_actions[i].type # "action_result"
        THEN Replace(selected_actions[i], option)
        ELSE selected_actions[i]]
FinalActions(option, selected_actions) ==
    [i \in 1..Len(selected_actions) |->
        IF option.type = "action_call"
        THEN Replace(selected_actions[i], option)
        ELSE selected_actions[i]]

\* "Flatten results": all_option_selected_actions.extend(result) in gather order
RECURSIVE FlattenReversed(_)
FlattenReversed(results) ==
    IF results = <<>> THEN <<>>
    ELSE FlattenReversed(Tail(results)) \o Head(results)

RECURSIVE Flatten(_)
Flatten(results) ==
    IF results = <<>> THEN <<>>
    ELSE Head(results) \o Flatten(Tail(results))

\* bound: return selected_actions + option_selected_actions
BoundReturnResultsFirst(selected_actions, option_selected_actions) ==
    option_selected_actions \o selected_actions
BoundReturnResultsOnly(selected_actions, option_selected_actions) ==
    option_selected_actions
BoundReturn(selected_actions, option_selected_actions) ==
    selected_actions \o option_selected_actions

\* ----------------------------------------------------------------- errors
\* kind: the exception class; at: the frame that raised it; names: the policy
\* name the message of the exception quotes
NoError == [kind |-> "none", at |-> <<>>, names |-> NoneVal]
\* raise TypeError(f"Policy '{policy_name}'.payload must be a dict[str, Any] ...")
ArgsTypeError(p, policy_name) == [kind |-> "TypeError", at |-> p, names |-> policy_name]
\* getattr(ctx, policy_name) on a name the context does not have:
\* AttributeError: '...' object has no attribute '<policy_name>'
AttrError(p, policy_name) == [kind |-> "AttributeError", at |-> p, names |-> policy_name]
\* an exception raised by the body of the policy called in frame p
PolicyError(p) == [kind |-> "PolicyError", at |-> p, names |-> NoneVal]
\* func(**args) on an attribute that is no callable:
\* TypeError: '...' object is not callable
NotCallableError(p, policy_name) == [kind |-> "TypeError", at |-> p, names |-> NoneVal]
\* await of what a method of the context returned:
\* TypeError: object ... can't be used in 'await' expression
NotAwaitableError(p, policy_name) == [kind |-> "TypeError", at |-> p, names |-> NoneVal]
\* msg.type on an element that has no such attribute:
\* AttributeError: 'str' object has no attribute 'type'
ElementAttrError(p) == [kind |-> "AttributeError", at |-> p, names |-> "type"]
\* raise TypeError(f"Policy '{policy_name}' must return list[Message], got ...")
ReturnTypeError(p, policy_name) == [kind |-> "TypeError", at |-> p, names |-> policy_name]

\* ------------------------------------------------- the messages considered
\* what the top-level policy may put in its list
TopText == Message("assistant", "text", TextPayload("thinking"), NoneVal, "t1")
CallX == Message("assistant", "action_call", CallPayload("search", "dict"), "x", "c1")
CallY == Message("assistant", "action_call", CallPayload("delete_all", "dict"), "y", "c2")
ResultX == Message("search", "action_result", TextPayload("cached"), "x", "r1")
CallBadArgs == Message("assistant", "action_call", CallPayload("search", "scalar"), "b", "c3")
CallMissing == Message("assistant", "action_call", CallPayload("missing", "dict"), "m", "c4")
CallListArgs == Message("assistant", "action_call", CallPayload("search", "list"), "l", "c5")
CallNoArgs == Message("assistant", "action_call", CallPayload("search", NoneVal), "n", "c6")
CallNoPolicy == Message("assistant", "action_call", CallPayload(NoneVal, "dict"), "p", "c7")

\* calls that name an attribute of the context that is no bound policy
CallMethod == Message("assistant", "action_call", CallPayload("get_policy", "dict"), "g", "c9")
CallField == Message("assistant", "action_call", CallPayload("_runner", "dict"), "r", "c10")
\* a call and a result that carry no tool_id
CallNoId == Message("assistant", "action_call", CallPayload("search", "dict"), NoneVal, "c8")
ResultNoId == Message("search", "action_result", TextPayload("stale"), NoneVal, "r2")

TopMsgs == {TopText, CallX, CallY, ResultX, CallBadArgs, CallMissing,
            CallListArgs, CallNoArgs, CallNoPolicy}

\* what a called sub-policy may return: a text message, a message already
\* typed action_result under a tool_id of its own, a nested call
SubText == Message("search", "text", TextPayload("hello"), NoneVal, "s1")
SubResult == Message("WebSearch", "action_result", TextPayload("found"), "z", "s2")
SubCall == Message("assistant", "action_call", CallPayload("search", "dict"), "x", "s3")

LeafLists == {<<>>, <<SubText>>, <<SubText, SubResult>>}
NestingLists == {<<SubCall>>, <<SubText, SubCall>>}

\* what the policy "planner" may put in its list
PlannerMsgs == {CallMethod, CallField, CallNoId, ResultNoId}

\* elements of a returned list that are no Message: a str, which has no
\* attribute type, and an object with the attributes type and tool_id
StrElement == Message("<str>", "<no attribute>", TextPayload("oops"), NoneVal, "<str>")
DuckElement == Message("<SimpleNamespace>", "text", TextPayload("quack"), NoneVal, "<SimpleNamespace>")

\* isinstance(msg, Message)
IsMessage(msg) == msg \notin {StrElement, DuckElement}

\* msg.type can be read
HasTypeAttr(msg) == msg # StrElement

\* lists with an element that is no Message, which a sub-policy called for
\* "planner" may return
BadLists == {<<StrElement>>, <<SubText, DuckElement>>}

\* all lists over S of length at most n
SeqsUpTo(S, n) == UNION {[1..k -> S] : k \in 0..n}

\* ------------------------------------------- policy metadata and registry
\* policy_spec_mcp.py PolicyMetadata: a frozen dataclass of five fields
PolicyMetadata(name, description, kind, input_schema, annotations) ==
    [name |-> name, description |-> description, kind |-> kind,
     input_schema |-> input_schema, annotations |-> annotations]

\* PolicyKind = Literal["tool", "resource", "none_mcp"]
PolicyKind == {"tool", "resource", "none_mcp"}

\* a schema dict: {"type": ..., "properties": ..., "required": ...}, the
\* last key present only if hasRequired; py tells a dict from None
\* the empty dict {}
EmptyDict ==
    [py |-> "dict", type |-> NoneVal, properties |-> <<>>, required |-> <<>>,
     hasRequired |-> FALSE]
\* None where a dict may stand (input_schema=None, annotations=None)
NoDict ==
    [py |-> "None", type |-> NoneVal, properties |-> <<>>, required |-> <<>>,
     hasRequired |-> FALSE]
\* None where a PolicyMetadata may stand (getattr(func, "__policy__", None))
NoMeta == PolicyMetadata(NoneVal, NoneVal, NoneVal, NoDict, NoDict)

\* an input_schema written by hand and passed to the decorator
GivenSchema ==
    [py |-> "dict", type |-> "object",
     properties |-> <<[name |-> "q", type |-> "string", description |-> NoneVal]>>,
     required |-> <<"q">>,
     hasRequired |-> TRUE]

\* the truth value Python gives an input_schema argument: None and {} are false
Truthy(x) == x # NoDict /\ x # EmptyDict

\* an inspect.Parameter with its type hint: ann is the annotation ("Any" when
\* there is none), hasDefault is p.default is not inspect._empty
Param(name, ann, hasDefault) == [name |-> name, ann |-> ann, hasDefault |-> hasDefault]

\* the :param name: entries of a docstring, as re.finditer finds them
NoParams == [n \in {} |-> ""]
\* a __doc__: absent (None), or a text with its :param entries
Docstring(entries) == [present |-> TRUE, entries |-> entries]
NoDoc == [present |-> FALSE, entries |-> NoParams]

\* the callables handed to the decorators and to the registry.  name is
\* __name__; params is the signature of the function, or of __call__ with self
\* first for a class; callDoc and classDoc are the parsed docstrings of the
\* target and of the object (the same for a function), NoDoc when there is
\* none; policy is a __policy__ attribute the object already carries
FuncDef(func) ==
    CASE func = "search_fn" ->
           [name |-> "search", isClass |-> FALSE,
            params |-> <<Param("query", "str", FALSE), Param("limit", "int", TRUE),
                         Param("lang", "str | None", FALSE)>>,
            callDoc |-> Docstring("query" :> "what to look for" @@ "limit" :> "how many"
                                  @@ "lang" :> "language of the results"),
            classDoc |-> Docstring("query" :> "what to look for" @@ "limit" :> "how many"
                                   @@ "lang" :> "language of the results"),
            policy |-> NoMeta]
      [] func = "fetch_fn" ->
           [name |-> "fetch", isClass |-> FALSE,
            params |-> <<Param("url", "str", FALSE), Param("timeout", "Optional[int]", FALSE)>>,
            callDoc |-> Docstring("url" :> "the page"),
            classDoc |-> Docstring("url" :> "the page"),
            policy |-> NoMeta]
      [] func = "Summarize" ->
           [name |-> "Summarize", isClass |-> TRUE,
            params |-> <<Param("self", "Any", FALSE), Param("text", "Optional[str]", FALSE)>>,
            callDoc |-> NoDoc,
            classDoc |-> Docstring("text" :> "what to summarize"),
            policy |-> NoMeta]
      [] func = "legacy_tool" ->
           [name |-> "legacy_tool", isClass |-> FALSE, params |-> <<>>,
            callDoc |-> NoDoc, classDoc |-> NoDoc,
            policy |-> PolicyMetadata("search", "", "tool", GivenSchema, EmptyDict)]
      [] func = "legacy_resource" ->
           [name |-> "legacy_resource", isClass |-> FALSE, params |-> <<>>,
            callDoc |-> NoDoc, classDoc |-> NoDoc,
            policy |-> PolicyMetadata("docs", "", "resource", GivenSchema, EmptyDict)]
      [] func = "legacy_internal" ->
           [name |-> "legacy_internal", isClass |-> FALSE, params |-> <<>>,
            callDoc |-> NoDoc, classDoc |-> NoDoc,
            policy |-> PolicyMetadata("notes", "", "none_mcp", GivenSchema, EmptyDict)]
      [] OTHER ->
           [name |-> "plain", isClass |-> FALSE, params |-> <<>>,
            callDoc |-> NoDoc, classDoc |-> NoDoc, policy |-> NoMeta]

\* the callables the decorators are applied to
Decorated == {"search_fn", "fetch_fn", "Summarize"}
\* every callable handed to register_policy
Funcs == Decorated \cup {"legacy_tool", "legacy_resource", "legacy_internal", "plain"}

\* _python_type_to_json_schema(t)["type"]: a typing.Union with one member
\* that is not None is the schema of that member; str | None falls through
\* to the last return
PythonTypeToJsonSchema(t) ==
    CASE t \in {"str", "Optional[str]"} -> "string"
      [] t \in {"int", "Optional[int]"} -> "integer"
      [] OTHER -> "object"

\* origin is Union and any(a is type(None) for a in args).  get_origin of
\* the annotation str | None is types.UnionType, which is not typing.Union
\* on the interpreters the package runs on (3.12, 3.13)
IsOptional(ann) == ann \in {"Optional[str]", "Optional[int]"}

\* params = all_params[1:] if inspect.isclass(func) else all_params
SchemaParams(func) ==
    IF FuncDef(func).isClass THEN Tail(FuncDef(func).params) ELSE FuncDef(func).params

\* doc = getattr(target, '__doc__', None) or getattr(func, '__doc__', None),
\* then the :param entries found in it
ParamDescriptions(func) ==
    LET doc == IF FuncDef(func).callDoc.present THEN FuncDef(func).callDoc
               ELSE FuncDef(func).classDoc
    IN IF doc.present THEN doc.entries ELSE NoParams

\* the positions of the parameters at which
\* "if name not in param_descriptions: raise KeyError" fires
MissingDescriptionsIgnored(func) == {}
MissingDescriptions(func) ==
    {i \in 1..Len(SchemaParams(func)) :
        SchemaParams(func)[i].name \notin DOMAIN ParamDescriptions(func)}

\* properties[name] = schema with schema["description"] set
Properties(func) ==
    [i \in 1..Len(SchemaParams(func)) |->
        LET p == SchemaParams(func)[i]
        IN [name |-> p.name,
            type |-> PythonTypeToJsonSchema(p.ann),
            description |-> IF p.name \in DOMAIN ParamDescriptions(func)
                            THEN ParamDescriptions(func)[p.name] ELSE NoneVal]]

\* a parameter is required if p.default is inspect._empty and not is_optional
RequiredParam(param) == ~param.hasDefault /\ ~IsOptional(param.ann)

\* the names appended to required, in signature order
Required(func) ==
    LET req == SelectSeq(SchemaParams(func), RequiredParam)
    IN [i \in 1..Len(req) |-> req[i].name]

\* _infer_input_schema(func): the KeyError of the first parameter without a
\* description, or {"type": "object", "properties": ...} with "required"
\* only when the list is not empty
InferInputSchema(func) ==
    IF MissingDescriptions(func) # {}
    THEN [raised |-> "KeyError",
          names |-> LET i == CHOOSE k \in MissingDescriptions(func) :
                                   \A j \in MissingDescriptions(func) : k <= j
                    IN SchemaParams(func)[i].name,
          schema |-> NoDict]
    ELSE [raised |-> "none", names |-> NoneVal,
          schema |-> [py |-> "dict", type |-> "object",
                      properties |-> Properties(func),
                      required |-> Required(func),
                      hasRequired |-> Required(func) # <<>>]]

\* policy_spec(mcp_kind, name, input_schema)(func): the metadata the
\* decorator attaches as func.__policy_spec__, unless inference raised
PolicySpec(func, mcp_kind, name, input_schema) ==
    LET inferred == IF Truthy(input_schema)
                    THEN [raised |-> "none", names |-> NoneVal, schema |-> input_schema]
                    ELSE InferInputSchema(func)
    IN IF inferred.raised # "none"
       THEN [raised |-> inferred.raised, names |-> inferred.names, meta |-> NoMeta]
       ELSE [raised |-> "none", names |-> NoneVal,
             meta |-> PolicyMetadata(IF name = NoneVal THEN FuncDef(func).name ELSE name,
                                     "", mcp_kind, inferred.schema, EmptyDict)]

\* registry.py RegisteredPolicy
RegisteredPolicy(func, meta) == [func |-> func, meta |-> meta]
\* None where a RegisteredPolicy may stand (Registry.get of an absent name)
NoEntry == RegisteredPolicy(NoneVal, NoMeta)

\* self._policies[name] = value
SetItem(dict, name, value) ==
    [n \in DOMAIN dict \cup {name} |-> IF n = name THEN value ELSE dict[n]]

\* Registry.get(name): self._policies.get(name)
Get(dict, name) == IF name \in DOMAIN dict THEN dict[name] ELSE NoEntry

\* Registry.mcp_tools / mcp_resources / internal_only over self._policies
McpToolsUnfiltered(dict) == dict
McpTools(dict) ==
    [n \in {k \in DOMAIN dict : dict[k].meta.kind = "tool"} |-> dict[n]]
McpResources(dict) ==
    [n \in {k \in DOMAIN dict : dict[k].meta.kind = "resource"} |-> dict[n]]
InternalOnly(dict) ==
    [n \in {k \in DOMAIN dict : dict[k].meta.kind = "none_mcp"} |-> dict[n]]

\* the decorator arguments considered: name= and input_schema= left out or
\* given, input_schema={} too
DecoratorArgs ==
    {[name |-> NoneVal, input_schema |-> NoDict],
     [name |-> NoneVal, input_schema |-> EmptyDict],
     [name |-> NoneVal, input_schema |-> GivenSchema],
     [name |-> "custom", input_schema |-> NoDict]}
\* the aliases considered: none, or a name that legacy_resource declares
Aliases == {NoneVal, "docs"}

\* ------------------------------------------------------- unpack_params
\* a hand-written schema whose "required" lists a name it does not declare
LooseSchema ==
    [py |-> "dict", type |-> "object",
     properties |-> <<[name |-> "q", type |-> "string", description |-> NoneVal]>>,
     required |-> <<"q", "mode">>,
     hasRequired |-> TRUE]

\* the keys and values of the argument objects considered
ArgKeys == {"query", "limit", "lang", "text", "q", "junk"}
ArgValues == {"a", "b"}
\* params_dict: the dicts over at most MaxKeys of the keys
ArgDicts ==
    UNION {[K -> ArgValues] : K \in {S \in SUBSET ArgKeys : Cardinality(S) <= MaxKeys}}

\* the callables and input_schema arguments whose metadata is unpacked against
UnpackFuncs == {"search_fn", "Summarize"}
UnpackSchemas == {NoDict, GivenSchema, LooseSchema}

\* param_name in required (a list)
InList(name, list) == \E i \in 1..Len(list) : list[i] = name

\* the positions, in the order of properties, at which the loop of
\* unpack_params raises: the name is not in params_dict and is in required
MissingRequired(schema, params_dict) ==
    {i \in 1..Len(schema.properties) :
        /\ schema.properties[i].name \notin DOMAIN params_dict
        /\ InList(schema.properties[i].name, schema.required)}

\* unpack_params(meta, params_dict): ValueError naming the first declared
\* property that is required and absent, else the declared properties that
\* params_dict holds, with their values
UnpackParams(meta, params_dict) ==
    LET schema == meta.input_schema
        missing == MissingRequired(schema, params_dict)
    IN IF missing # {}
       THEN [raised |-> "ValueError",
             names |-> schema.properties[CHOOSE i \in missing : \A j \in missing : i <= j].name,
             policy |-> meta.name,
             unpacked |-> NoParams]
       ELSE [raised |-> "none", names |-> NoneVal, policy |-> NoneVal,
             unpacked |-> [n \in {schema.properties[i].name : i \in 1..Len(schema.properties)}
                                     \cap DOMAIN params_dict |-> params_dict[n]]]

\* params_dict after the call: unpack_params reads it with "in" and [],
\* and writes only to its own dict unpacked
ParamsDictPopped(schema, params_dict) ==
    [n \in DOMAIN params_dict \
           {schema.properties[i].name : i \in 1..Len(schema.properties)} |-> params_dict[n]]
ParamsDictAfter(schema, params_dict) == params_dict

\* the value a parameter has when the callable is called without it
DefaultValue == "<default>"

\* func(**kwargs): TypeError for a parameter without default that kwargs
\* does not give, else the value each parameter is bound to
CallWithKwargs(func, kwargs) ==
    LET params == SchemaParams(func)
        unbound == {i \in 1..Len(params) :
                      params[i].name \notin DOMAIN kwargs /\ ~params[i].hasDefault}
    IN IF unbound # {}
       THEN [raised |-> "TypeError",
             names |-> params[CHOOSE i \in unbound : \A j \in unbound : i <= j].name,
             bound |-> NoParams]
       ELSE [raised |-> "none", names |-> NoneVal,
             bound |-> [n \in {params[i].name : i \in 1..Len(params)} |->
                          IF n \in DOMAIN kwargs THEN kwargs[n] ELSE DefaultValue]]

\* ------------------------------------------------- binding on a context
\* the policies handed to BaseContext._bind
Policies == {"web_search", "web_search_alt", "llm_v1"}

\* OptionSchema.from_func_single(policy).name: the name the policy declares;
\* web_search_alt declares the name web_search too
OptionName(policy) ==
    IF policy = "web_search_alt" THEN "web_search" ELSE policy

\* the attribute names a context stores its bound policies under
\* (self.llm = self._bind(...), self.web_search = self._bind(...))
AttrNames == {"web_search", "llm"}

\* the names asked of get_policy: the attributes above, an option name that
\* is no attribute, an attribute that is no policy, a name of nothing
LookupNames == AttrNames \cup {"llm_v1", "_runner", "nonexistent"}

\* the callable runner._bind_strategy returns, with
\* bound.__policy_func__ = policy
Bound(policy) == [policy_func |-> policy]
\* None where a bound callable may stand (dict.get of an absent name)
NoBound == [policy_func |-> NoneVal]

\* if option_schema.name in self._option_to_bound_policy
IsDuplicateNever(name, option_to_bound_policy) == FALSE
IsDuplicate(name, option_to_bound_policy) == name \in DOMAIN option_to_bound_policy

\* BaseContext._bind(policy) on a context whose map is option_to_bound_policy
Bind(policy, option_to_bound_policy) ==
    LET bound == Bound(policy)
        name == OptionName(policy)
    IN IF IsDuplicate(name, option_to_bound_policy)
       THEN [raised |-> "ValueError", bound |-> NoBound,
             option_to_bound_policy |-> option_to_bound_policy]
       ELSE [raised |-> "none", bound |-> bound,
             option_to_bound_policy |-> SetItem(option_to_bound_policy, name, bound)]

\* BaseContext.get_policy(policy_name): the lookup is in
\* self._option_to_bound_policy, the attributes of the context play no part
GetPolicy(policy_name, option_to_bound_policy, attrs) ==
    LET bound_policy == IF policy_name \in DOMAIN option_to_bound_policy
                        THEN option_to_bound_policy[policy_name] ELSE NoBound
    IN IF bound_policy = NoBound
       THEN [raised |-> "ValueError", policy |-> NoneVal]
       ELSE IF bound_policy.policy_func = NoneVal
       THEN [raised |-> "ValueError", policy |-> NoneVal]
       ELSE [raised |-> "none", policy |-> bound_policy.policy_func]

\* ------------------------------------------------- the current context
\* BaseContext and the subclasses of it an application defines
ContextClasses == {"BaseContext", "AppA", "AppB"}

\* the execution contexts (contextvars.Context): that of the main
\* coroutine, and that of a task, a copy made when the task is created
ExecContexts == {"main", "task"}

\* the class whose _ctx_var attribute cls._ctx_var resolves to:
\* __init_subclass__ gives every subclass a ContextVar of its own, and
\* __init__ gives BaseContext one when it is instantiated directly
CtxVarOwnerShared(cls) == "BaseContext"
CtxVarOwner(cls) == cls

\* ContextVar.get() without a value set
Unset == 0

\* ------------------------------------------ loop_wrapper, invoke_action
\* the Action a wrapped policy is given: its history (a tuple of tool
\* entries) and its edges (the tools it may call); isAction tells an Action
\* from the other values a policy may return
ActionOf(history, edges) == [isAction |-> TRUE, history |-> history, edges |-> edges]
NoAction == [isAction |-> FALSE, history |-> <<>>, edges |-> {}]

\* the edges of the Action the loop starts with, and the tools a decider may ask for
AllowedEdges == {"tool", "search_tool"}
ToolNames == AllowedEdges \cup {"rm"}

\* what a decider returns: {"tool_call": tool, "tool_args": ...},
\* {"done": True, "value": value}, {"done": False}, a value of another type;
\* or it raises
Decision(kind, tool, value) == [kind |-> kind, tool |-> tool, value |-> value]
Decisions ==
    {Decision("tool_call", t, NoneVal) : t \in ToolNames}
    \cup {Decision("done", NoneVal, "Success"), Decision("not_done", NoneVal, NoneVal),
          Decision("other", NoneVal, "text"), Decision("raise", NoneVal, NoneVal)}

\* the decider of test_decorators_loop_and_invoke: a tool call while the
\* history is empty, then done
DeciderOnce(action) ==
    IF action.history = <<>> THEN Decision("tool_call", "tool", NoneVal)
    ELSE Decision("done", NoneVal, "Success")

\* the decisions a decider of the given kind may take on action
DecisionsOf(decider, action) ==
    IF decider = "once" THEN {DeciderOnce(action)} ELSE Decisions

\* new_history_item = {"role": "tool", "name": tool_name, "content": tool_result}
HistoryItem(tool_name) ==
    [role |-> "tool", name |-> tool_name, content |-> <<"result of", tool_name>>]

\* no decision: what invoke_action hands back when it returns an Action
NoDecision == Decision("none", NoneVal, NoneVal)

\* what the message of an exception names: f"... tried to call {tool_name},
\* but it was not in allowed edges: {action.edges}"
Named(tool, edges) == [tool |-> tool, edges |-> edges]
NoNames == Named(NoneVal, {})

\* the security check passes: not (tool_name not in action.edges)
AllowedAlways(tool_name, edges) == TRUE
Allowed(tool_name, edges) == tool_name \in edges

\* new_history = action.history + (new_history_item,): a new tuple
NewHistoryReplaced(history, item) == <<item>>
NewHistory(history, item) == Append(history, item)

\* the object passed as action, after replace(action, history=new_history)
\* made a new Action out of it
ActionAfter(action, new_history) == action

\* invoke_action.wrapper(action, ctx) around a decider that took decision:
\* the Action it returns (result) or the decision it returns as it is
\* (returned), the exception it raises and what its message names, the tool
\* it called, and the object passed as action afterwards
InvokeAction(action, decision) ==
    IF decision.kind = "raise"
    THEN [raised |-> "PolicyError", names |-> NoNames, result |-> NoAction,
          returned |-> NoDecision, called |-> <<>>, actionAfter |-> action]
    ELSE IF decision.kind = "tool_call"
    THEN IF ~Allowed(decision.tool, action.edges)
         THEN [raised |-> "ValueError", names |-> Named(decision.tool, action.edges),
               result |-> NoAction, returned |-> NoDecision, called |-> <<>>,
               actionAfter |-> action]
         ELSE LET new_history == NewHistory(action.history, HistoryItem(decision.tool))
              IN [raised |-> "none", names |-> NoNames,
                  result |-> [action EXCEPT !.history = new_history],
                  returned |-> NoDecision, called |-> <<decision.tool>>,
                  actionAfter |-> ActionAfter(action, new_history)]
    ELSE [raised |-> "none", names |-> NoNames, result |-> NoAction,
          returned |-> decision, called |-> <<>>, actionAfter |-> action]

\* for i in range(max_turns): another turn is made after i turns
MoreTurnsOneMore(i, max_turns) == i <= max_turns
MoreTurns(i, max_turns) == i < max_turns

\* current_action = result, when the result of the turn is an Action
NextActionKept(current_action, result) == current_action
NextAction(current_action, result) == result

\* ------------------------------------------------------- LLM adapters
\* the observations an adapter may be given: text, calls with and without a
\* result, a result, a call without tool_id
Observations == {TopText, CallX, CallY, ResultX, CallNoId}

\* a message in the provider's format: its role, the key that tells its kind
\* ("content", "tool_calls", "tool_call_id"; "parts", "function_call",
\* "function_response"), the call id and the function name it carries
ProviderMessage(role, kind, id, name) == [role |-> role, kind |-> kind, id |-> id, name |-> name]

\* tool_results: the ids of the results in in_msgs
ToolResults(in_msgs) ==
    {in_msgs[i].tool_id : i \in {j \in 1..Len(in_msgs) : in_msgs[j].type = "action_result"}}

\* ledger_to_llm_messages, first loop: an action_result without tool_id
ResultWithoutId(in_msgs) ==
    \E i \in 1..Len(in_msgs) :
        in_msgs[i].type = "action_result" /\ in_msgs[i].tool_id = NoneVal

\* ledger_to_llm_messages, second loop over the rest of in_msgs: the
\* exception it ends in ("none" if it ends normally) and the messages
\* appended
RECURSIVE LedgerLoop(_, _)
LedgerLoop(rest, tool_results) ==
    IF rest = <<>> THEN [raised |-> "none", messages |-> <<>>]
    ELSE LET msg == Head(rest)
             tail == LedgerLoop(Tail(rest), tool_results)
         IN IF msg.type = "text"
            THEN [tail EXCEPT !.messages =
                    <<ProviderMessage(msg.actor, "content", NoneVal, NoneVal)>> \o @]
            ELSE IF msg.type = "action_call"
            THEN IF msg.tool_id = NoneVal
                 THEN [raised |-> "ValueError", messages |-> <<>>]
                 ELSE IF msg.tool_id \notin tool_results
                 THEN [raised |-> "KeyError", messages |-> <<>>]
                 ELSE [tail EXCEPT !.messages =
                         <<ProviderMessage("assistant", "tool_calls", msg.tool_id,
                                           msg.payload.policy),
                           ProviderMessage("tool", "tool_call_id", msg.tool_id, NoneVal)>>
                         \o @]
            ELSE tail

\* ledger_to_llm_messages(in_msgs): a raised call returns no list
LedgerToLlmMessages(in_msgs) ==
    IF ResultWithoutId(in_msgs) THEN [raised |-> "ValueError", messages |-> <<>>]
    ELSE LET r == LedgerLoop(in_msgs, ToolResults(in_msgs))
         IN IF r.raised # "none" THEN [raised |-> r.raised, messages |-> <<>>] ELSE r

\* observations_to_gemini_messages, the loop over the rest of in_msgs
RECURSIVE GeminiLoop(_, _)
GeminiLoop(rest, tool_results) ==
    IF rest = <<>> THEN <<>>
    ELSE LET msg == Head(rest)
             tail == GeminiLoop(Tail(rest), tool_results)
         IN IF msg.type = "text"
            THEN <<ProviderMessage(IF msg.actor = "user" THEN "user" ELSE "model",
                                   "parts", NoneVal, NoneVal)>> \o tail
            ELSE IF msg.type = "action_call"
            THEN IF msg.tool_id \notin tool_results
                 THEN tail
                 ELSE <<ProviderMessage("model", "function_call", NoneVal, msg.payload.policy),
                        ProviderMessage("function", "function_response", NoneVal,
                                        msg.payload.policy)>> \o tail
            ELSE tail

\* observations_to_gemini_messages(in_msgs)
ObservationsToGeminiMessages(in_msgs) ==
    [raised |-> "none", messages |-> GeminiLoop(in_msgs, ToolResults(in_msgs))]

\* ------------------------------------------------------------------ state
VARIABLES
    fr,         \* path -> frame, for every bound call made so far
    attached,   \* callable -> its __policy_spec__ attribute, NoMeta if none
    policies,   \* Registry._policies: name -> RegisteredPolicy
    last,       \* the last decoration or registration and how it ended
    ops,        \* the number of decorations and registrations made
    up,         \* the last call of unpack_params and what followed it
    bd,         \* one context: its map of bound policies, its attributes,
                \* the last _bind or get_policy on it
    cv,         \* the contexts constructed, the values of the ContextVars
                \* in each execution context, the last get_ctx
    lp,         \* one call of loop_wrapper(max_turns)(invoke_action()(decider))
    ad          \* one call of an LLM adapter: its input and how it ended

registryVars == <<attached, policies, last, ops>>
\* the variables of the parts modelled after the engine and the registry
restVars == <<up, bd, cv, lp, ad>>
vars == <<fr, attached, policies, last, ops, up, bd, cv, lp, ad>>

Parent(p) == SubSeq(p, 1, Len(p) - 1)
Children(p) == {q \in DOMAIN fr : Len(q) = Len(p) + 1 /\ Parent(q) = p}
NumChildren(p) == Cardinality(Children(p))
Siblings(p) == {q \in DOMAIN fr : Len(q) = Len(p) /\ q # p /\ Len(p) > 0 /\ Parent(q) = Parent(p)}

\* a frame before its first step: the task gather() created for option
NewFrame(option) ==
    [option |-> option,
     pc |-> "created",
     invoked |-> FALSE,
     calls |-> 0,
     selected |-> <<>>,
     ret |-> <<>>,
     final |-> <<>>,
     error |-> NoError,
     gexc |-> NoError,
     overtook |-> FALSE,
     failedFirst |-> FALSE]

\* the call the application makes on the context: await ctx.agent(...)
TopOption == Message("user", "action_call", CallPayload("agent", "dict"), NoneVal, "top")

\* no operation yet
\* (before: the __policy_spec__ the callable had; replaced: the entry the
\* registry had under name)
NoOp ==
    [op |-> "none", func |-> NoneVal, outcome |-> "none", names |-> NoneVal,
     inferred |-> FALSE, before |-> NoMeta,
     alias |-> NoneVal, name |-> NoneVal, present |-> FALSE, replaced |-> NoEntry]

\* unpack_params not called yet
NoUnpack ==
    [pc |-> "none", func |-> NoneVal, meta |-> NoMeta, params_dict |-> NoParams,
     metaAfter |-> NoMeta, paramsAfter |-> NoParams,
     raised |-> "none", names |-> NoneVal, policy |-> NoneVal, unpacked |-> NoParams,
     callRaised |-> "none", callNames |-> NoneVal, bound |-> NoParams]

\* nothing done on the context yet
NoBindOp ==
    [op |-> "none", policy |-> NoneVal, attr |-> NoneVal, name |-> NoneVal,
     raised |-> "none", result |-> NoneVal, duplicate |-> FALSE,
     before |-> [n \in {} |-> NoBound]]

\* BaseContext.__init__: self._option_to_bound_policy = {}, no policy
\* attribute yet
NewContext ==
    [option_to_bound_policy |-> [n \in {} |-> NoBound],
     attrs |-> [n \in {} |-> NoBound],
     last |-> NoBindOp]

\* no get_ctx yet
NoGetCtx == [op |-> "none", cls |-> NoneVal, ec |-> NoneVal, raised |-> "none", result |-> Unset]

\* no context constructed: made lists the contexts by class and execution
\* context of construction; hasVar tells whether cls._ctx_var is a
\* ContextVar (None on BaseContext until its first direct instance);
\* value is what each ContextVar holds in each execution context, as an
\* index into made; forked is the length of made when the task was created
NoContexts ==
    [made |-> <<>>,
     hasVar |-> [c \in ContextClasses |-> c # "BaseContext"],
     value |-> [c \in ContextClasses |-> [e \in ExecContexts |-> Unset]],
     forked |-> -1,
     last |-> NoGetCtx]

\* the wrapped policy not called yet.  turns: the calls of the decider made;
\* given: the Action of the last call; givenAfter: that object after the
\* call; returned: the Action the last turn returned; returnedBefore: the
\* Action the turn before it returned; passed: the decision invoke_action
\* returned as it was in the last turn; toolsBefore: the tools called before
\* the last turn; tools: the tools called, in order; names: what the message
\* of the exception names; value: what the loop returned
NoLoop ==
    [pc |-> "idle", decider |-> NoneVal, max_turns |-> 0, turns |-> 0,
     current_action |-> NoAction, given |-> NoAction, givenAfter |-> NoAction,
     returned |-> NoAction, returnedBefore |-> NoAction,
     lastDecision |-> NoDecision, passed |-> NoDecision,
     toolsBefore |-> <<>>, tools |-> <<>>,
     raised |-> "none", names |-> NoNames, value |-> NoneVal]

\* no adapter called yet
NoConversion ==
    [pc |-> "none", adapter |-> NoneVal, in_msgs |-> <<>>,
     raised |-> "none", messages |-> <<>>]

\* the call the application makes on the context: await ctx.planner(...)
TopOptionPlanner ==
    Message("user", "action_call", CallPayload("planner", "dict"), NoneVal, "top")

\* one top-level call not yet awaited, no callable decorated, Registry()
Init ==
    /\ fr = [p \in {<<>>} |-> [NewFrame(TopOption) EXCEPT !.pc = "pending"]]
    /\ attached = [f \in Funcs |-> NoMeta]
    /\ policies = [n \in {} |-> NoEntry]
    /\ last = NoOp
    /\ ops = 0
    /\ up = NoUnpack
    /\ bd = NewContext
    /\ cv = NoContexts
    /\ lp = NoLoop
    /\ ad = NoConversion

Finished(q) == fr[q].pc \in {"done", "failed"}

\* the policy the application awaits at the top
TopPolicy == fr[<<>>].option.payload.policy

\* the lists the policy body running in frame p may return
Rets(p) ==
    IF p = <<>>
    THEN SeqsUpTo(IF TopPolicy = "planner" THEN PlannerMsgs ELSE TopMsgs, MaxLen)
    ELSE (IF Len(p) < MaxDepth THEN LeafLists \cup NestingLists ELSE LeafLists)
         \cup (IF TopPolicy = "planner" THEN BadLists ELSE {})

\* frame p finished before an earlier-listed sibling did
Overtakes(p) ==
    \E q \in Siblings(p) : q[Len(q)] < p[Len(p)] /\ ~Finished(q)

\* await asyncio.gather(*tasks) without return_exceptions: the exception the
\* awaiting frame gets is the one of the first task that raised; later ones
\* do not replace it
GatherExceptionLastWins(pending, err) == err
GatherExceptionDropped(pending, err) == pending
GatherException(pending, err) == IF pending = NoError THEN err ELSE pending

\* what gather() does to the frame of a sibling task when a task raises:
\* nothing, the sibling is neither cancelled nor kept from starting
SiblingCancelled(frame) ==
    IF frame.pc \in {"created", "running", "gathering"}
    THEN [frame EXCEPT !.pc = "cancelled"]
    ELSE frame
SiblingAfterFailure(frame) == frame

\* frame p of frames ends with exception err; gather() hands the first
\* exception of its children to the awaiting parent and leaves the other
\* children running
RaiseIn(frames, p, err) ==
    fr' = [q \in DOMAIN frames |->
            IF q = p
            THEN [frames[q] EXCEPT !.pc = "failed", !.error = err,
                                   !.overtook = Overtakes(p),
                                   !.failedFirst = (\A s \in Siblings(p) : fr[s].pc # "failed")]
            ELSE IF p # <<>> /\ q = Parent(p)
            THEN [frames[q] EXCEPT !.gexc = GatherException(frames[q].gexc, err)]
            ELSE IF q \in Siblings(p)
            THEN SiblingAfterFailure(frames[q])
            ELSE frames[q]]

Raise(p, err) == RaiseIn(fr, p, err)

\* selected_actions + option_selected_actions builds a new list: the list
\* object the policy returned is what it was
SelectedAfterExtend(selected_actions, option_selected_actions) ==
    selected_actions \o option_selected_actions
SelectedAfterMerge(selected_actions, option_selected_actions) == selected_actions

\* frame p ends normally: bound returns the merge of the policy's list and
\* the results of its options; a task stamps that return in execute_option
\* the loop of execute_option raises on an element that is no Message
Return(p, selected_actions, option_selected_actions) ==
    LET ret == BoundReturn(selected_actions, option_selected_actions)
        returned == [fr EXCEPT ![p].selected =
                                  SelectedAfterMerge(selected_actions, option_selected_actions),
                               ![p].ret = ret]
    IN IF p # <<>> /\ \E i \in 1..Len(ret) : ~IsMessage(ret[i])
       THEN RaiseIn(returned, p, ReturnTypeError(p, PolicyName(fr[p].option)))
       ELSE fr' = [returned EXCEPT
                        ![p].pc = "done",
                        ![p].final = IF p = <<>> THEN ret ELSE FinalActions(fr[p].option, ret),
                        ![p].overtook = Overtakes(p)]

\* asyncio.gather(*[execute_option(option) for option in options]) makes a
\* task of every coroutine at once: the first step of a task waits for no
\* sibling
ScheduledSerially(p) ==
    \A q \in Siblings(p) : q[Len(q)] < p[Len(p)] => Finished(q)
Scheduled(p) == TRUE

\* "Exceptions will propagate up the stack": a policy body that raised is
\* not called again, however often it was called before
ShouldRetryOnce(calls) == calls < 2
ShouldRetry(calls) == FALSE

\* Pending -> Running: the application awaits the bound top-level policy;
\* bound() instantiates the policy and calls its body
TopCall ==
    /\ fr[<<>>].pc = "pending"
    /\ fr' = [fr EXCEPT ![<<>>].pc = "running", ![<<>>].invoked = TRUE,
                        ![<<>>].calls = @ + 1]
    /\ UNCHANGED <<registryVars, restVars>>

\* first step of the task of execute_option(option): validation, attribute
\* lookup, then the bound call starts the policy body; an attribute that is
\* no bound policy is called all the same (args is taken to fit the
\* parameters of what is called) and what it returns cannot be awaited
StartOption(p) ==
    /\ p # <<>>
    /\ fr[p].pc = "created"
    /\ Scheduled(p)
    /\ LET option == fr[p].option
           policy_name == PolicyName(option)
       IN IF ~IsDict(option.payload.args) THEN Raise(p, ArgsTypeError(p, policy_name))
          ELSE IF ~HasAttr(policy_name) THEN Raise(p, AttrError(p, policy_name))
          ELSE IF ~Callable(policy_name) THEN Raise(p, NotCallableError(p, policy_name))
          ELSE IF policy_name \notin BoundPolicies
          THEN RaiseIn([fr EXCEPT ![p].invoked = TRUE, ![p].calls = @ + 1],
                       p, NotAwaitableError(p, policy_name))
          ELSE fr' = [fr EXCEPT ![p].pc = "running", ![p].invoked = TRUE,
                                ![p].calls = @ + 1]
    /\ UNCHANGED <<registryVars, restVars>>

\* the policy body returns selected_actions; call_options_in_parallel reads
\* msg.type of every element, then either finds no option and returns [] at
\* once, or gathers one task per option
BodyReturn(p, selected_actions) ==
    /\ fr[p].pc = "running"
    /\ selected_actions \in Rets(p)
    /\ LET options == Options(selected_actions)
       IN IF \E i \in 1..Len(selected_actions) : ~HasTypeAttr(selected_actions[i])
          THEN RaiseIn([fr EXCEPT ![p].selected = selected_actions], p, ElementAttrError(p))
          ELSE IF options = <<>>
          THEN Return(p, selected_actions, <<>>)
          ELSE fr' = [q \in DOMAIN fr \cup {p \o <<i>> : i \in 1..Len(options)} |->
                        IF q = p
                        THEN [fr[p] EXCEPT !.pc = "gathering", !.selected = selected_actions]
                        ELSE IF q \in DOMAIN fr THEN fr[q]
                        ELSE NewFrame(options[q[Len(q)]])]
    /\ UNCHANGED <<registryVars, restVars>>

\* the policy body raises
BodyRaise(p) ==
    /\ fr[p].pc = "running"
    /\ IF ShouldRetry(fr[p].calls)
       THEN fr' = [fr EXCEPT ![p].calls = @ + 1]
       ELSE Raise(p, PolicyError(p))
    /\ UNCHANGED <<registryVars, restVars>>

\* the results of the children of p, in the order of the options
ChildResults(p) == [i \in 1..NumChildren(p) |-> fr[p \o <<i>>].final]

\* every task gathered by p has returned: flatten, merge, return
GatherReturn(p) ==
    /\ fr[p].pc = "gathering"
    /\ \A q \in Children(p) : fr[q].pc = "done"
    /\ Return(p, fr[p].selected, Flatten(ChildResults(p)))
    /\ UNCHANGED <<registryVars, restVars>>

\* a task gathered by p has raised: the awaiting frame raises that exception.
\* The first steps of all gathered tasks are queued on the event loop before
\* the frame suspends, so the frame resumes only after every task has started
GatherRaise(p) ==
    /\ fr[p].pc = "gathering"
    /\ fr[p].gexc # NoError
    /\ \A q \in Children(p) : fr[q].pc # "created"
    /\ Raise(p, fr[p].gexc)
    /\ UNCHANGED <<registryVars, restVars>>

Next ==
    \/ TopCall
    \/ \E p \in DOMAIN fr : StartOption(p)
    \/ \E p \in {q \in DOMAIN fr : fr[q].pc = "running"} :
          \E selected_actions \in Rets(p) : BodyReturn(p, selected_actions)
    \/ \E p \in DOMAIN fr : BodyRaise(p)
    \/ \E p \in DOMAIN fr : GatherReturn(p)
    \/ \E p \in DOMAIN fr : GatherRaise(p)

Spec == Init /\ [][Next]_vars

\* the application awaits the policy "planner" instead
InitPlanner ==
    /\ fr = [p \in {<<>>} |-> [NewFrame(TopOptionPlanner) EXCEPT !.pc = "pending"]]
    /\ attached = [f \in Funcs |-> NoMeta]
    /\ policies = [n \in {} |-> NoEntry]
    /\ last = NoOp
    /\ ops = 0
    /\ up = NoUnpack
    /\ bd = NewContext
    /\ cv = NoContexts
    /\ lp = NoLoop
    /\ ad = NoConversion

SpecPlanner == InitPlanner /\ [][Next]_vars

\* every step that can be taken is taken in the end: the event loop runs
\* every task that is ready, and policy bodies terminate
SpecLive == SpecPlanner /\ WF_vars(Next)

\* ------------------------------------------- decoration and registration
\* @policy_spec(...), @policy_spec_mcp_tool(...), @policy_spec_mcp_resource(...)
\* applied to func: inference may raise, and then nothing is attached
Decorate(func, mcp_kind, name, input_schema) ==
    /\ ops < MaxOps
    /\ LET r == PolicySpec(func, mcp_kind, name, input_schema)
       IN /\ attached' = IF r.raised = "none"
                         THEN [attached EXCEPT ![func] = r.meta]
                         ELSE attached
          /\ last' = [NoOp EXCEPT !.op = "decorate", !.func = func,
                                  !.outcome = IF r.raised = "none" THEN "ok" ELSE r.raised,
                                  !.names = r.names,
                                  !.inferred = ~Truthy(input_schema),
                                  !.before = attached[func]]
    /\ ops' = ops + 1
    /\ UNCHANGED <<fr, policies, restVars>>

\* Registry.register_policy(func, alias); Registry(*policies) calls it for
\* each policy in turn
RegisterPolicy(func, alias) ==
    /\ ops < MaxOps
    /\ LET meta == FuncDef(func).policy
       IN IF meta = NoMeta
          THEN /\ policies' = policies
               /\ last' = [NoOp EXCEPT !.op = "register", !.func = func,
                                       !.alias = alias,
                                       !.outcome = "ValueError",
                                       !.names = FuncDef(func).name]
          ELSE LET name == IF alias = NoneVal THEN meta.name ELSE alias
               IN /\ policies' = SetItem(policies, name, RegisteredPolicy(func, meta))
                  /\ last' = [NoOp EXCEPT !.op = "register", !.func = func,
                                          !.alias = alias,
                                          !.name = name,
                                          !.present = (name \in DOMAIN policies),
                                          !.outcome = "ok",
                                          !.replaced = IF name \in DOMAIN policies
                                                       THEN policies[name] ELSE NoEntry]
    /\ ops' = ops + 1
    /\ UNCHANGED <<fr, attached, restVars>>

NextRegistry ==
    \/ \E func \in Decorated, mcp_kind \in PolicyKind, args \in DecoratorArgs :
          Decorate(func, mcp_kind, args.name, args.input_schema)
    \/ \E func \in Funcs, alias \in Aliases : RegisterPolicy(func, alias)

SpecRegistry == Init /\ [][NextRegistry]_vars

\* --------------------------------------------------- unpacking parameters
\* params = unpack_params(policy_meta, tool_params) with the metadata the
\* decorator made for func from input_schema; one call is followed per run
Unpack(func, input_schema, params_dict) ==
    /\ up.pc = "none"
    /\ LET meta == PolicySpec(func, "tool", NoneVal, input_schema).meta
           r == UnpackParams(meta, params_dict)
       IN up' = [NoUnpack EXCEPT !.pc = IF r.raised = "none" THEN "unpacked" ELSE "raised",
                                 !.func = func, !.meta = meta, !.params_dict = params_dict,
                                 !.metaAfter = meta,
                                 !.paramsAfter = ParamsDictAfter(meta.input_schema, params_dict),
                                 !.raised = r.raised, !.names = r.names,
                                 !.policy = r.policy, !.unpacked = r.unpacked]
    /\ UNCHANGED <<fr, registryVars, bd, cv, lp, ad>>

\* await wrapped_func(..., **params): the callable is called with what
\* unpack_params returned for its inferred schema
CallUnpacked ==
    /\ up.pc = "unpacked"
    /\ up.meta.input_schema \notin {GivenSchema, LooseSchema}
    /\ LET r == CallWithKwargs(up.func, up.unpacked)
       IN up' = [up EXCEPT !.pc = "called", !.callRaised = r.raised,
                           !.callNames = r.names, !.bound = r.bound]
    /\ UNCHANGED <<fr, registryVars, bd, cv, lp, ad>>

NextUnpack ==
    \/ \E func \in UnpackFuncs, input_schema \in UnpackSchemas, params_dict \in ArgDicts :
          Unpack(func, input_schema, params_dict)
    \/ CallUnpacked

SpecUnpack == Init /\ [][NextUnpack]_vars

\* ----------------------------------------------- binding and get_policy
\* self.<attr> = self._bind(policy): the assignment happens only if _bind
\* returned
BindAs(policy, attr) ==
    /\ LET r == Bind(policy, bd.option_to_bound_policy)
       IN bd' = [option_to_bound_policy |-> r.option_to_bound_policy,
                 attrs |-> IF r.raised = "none" THEN SetItem(bd.attrs, attr, r.bound)
                           ELSE bd.attrs,
                 last |-> [NoBindOp EXCEPT !.op = "bind", !.policy = policy,
                                           !.attr = attr, !.name = OptionName(policy),
                                           !.raised = r.raised,
                                           !.duplicate = (OptionName(policy) \in
                                                            DOMAIN bd.option_to_bound_policy),
                                           !.before = bd.option_to_bound_policy]]
    /\ UNCHANGED <<fr, registryVars, up, cv, lp, ad>>

\* ctx.get_policy(policy_name)
CallGetPolicy(policy_name) ==
    /\ LET r == GetPolicy(policy_name, bd.option_to_bound_policy, bd.attrs)
       IN bd' = [bd EXCEPT !.last = [NoBindOp EXCEPT !.op = "get_policy",
                                                     !.name = policy_name,
                                                     !.raised = r.raised,
                                                     !.result = r.policy]]
    /\ UNCHANGED <<fr, registryVars, up, cv, lp, ad>>

NextBind ==
    \/ \E policy \in Policies, attr \in AttrNames : BindAs(policy, attr)
    \/ \E policy_name \in LookupNames : CallGetPolicy(policy_name)

SpecBind == Init /\ [][NextBind]_vars

\* --------------------------------------------------- contexts and get_ctx
\* cls(runner) in execution context ec: __init__ sets the ContextVar of the
\* class to the new context
Construct(cls, ec) ==
    /\ Len(cv.made) < MaxCtx
    /\ ec = "task" => cv.forked >= 0
    /\ cv' = [cv EXCEPT !.made = Append(@, [cls |-> cls, ec |-> ec]),
                        !.hasVar[CtxVarOwner(cls)] = TRUE,
                        !.value[CtxVarOwner(cls)][ec] = Len(cv.made) + 1,
                        !.last = NoGetCtx]
    /\ UNCHANGED <<fr, registryVars, up, bd, lp, ad>>

\* asyncio creates a task (gather, create_task): the task runs in a copy of
\* the execution context of its creator
CreateTask ==
    /\ cv.forked < 0
    /\ cv' = [cv EXCEPT !.value = [c \in ContextClasses |->
                                      [e \in ExecContexts |-> cv.value[c]["main"]]],
                        !.forked = Len(cv.made),
                        !.last = NoGetCtx]
    /\ UNCHANGED <<fr, registryVars, up, bd, lp, ad>>

\* cls.get_ctx() in execution context ec
GetCtx(cls, ec) ==
    /\ ec = "task" => cv.forked >= 0
    /\ cv' = [cv EXCEPT !.last =
                 [op |-> "get_ctx", cls |-> cls, ec |-> ec,
                  raised |-> IF ~cv.hasVar[CtxVarOwner(cls)] THEN "RuntimeError"
                             ELSE IF cv.value[CtxVarOwner(cls)][ec] = Unset THEN "LookupError"
                             ELSE "none",
                  result |-> IF cv.hasVar[CtxVarOwner(cls)]
                             THEN cv.value[CtxVarOwner(cls)][ec] ELSE Unset]]
    /\ UNCHANGED <<fr, registryVars, up, bd, lp, ad>>

NextContext ==
    \/ \E cls \in ContextClasses, ec \in ExecContexts : Construct(cls, ec)
    \/ CreateTask
    \/ \E cls \in ContextClasses, ec \in ExecContexts : GetCtx(cls, ec)

SpecContext == Init /\ [][NextContext]_vars

\* ------------------------------------------------------- the agent loop
\* the wrapped policy is called with an Action of empty history:
\* current_action = action
StartLoop(max_turns, decider) ==
    /\ lp.pc = "idle"
    /\ lp' = [NoLoop EXCEPT !.pc = "running", !.decider = decider,
                            !.max_turns = max_turns,
                            !.current_action = ActionOf(<<>>, AllowedEdges)]
    /\ UNCHANGED <<fr, registryVars, up, bd, cv, ad>>

\* one pass of the for loop: result = await func(current_action, ctx) with
\* func the invoke_action wrapper of the decider, then the three tests on
\* result
Turn(decision) ==
    /\ lp.pc = "running"
    /\ MoreTurns(lp.turns, lp.max_turns)
    /\ decision \in DecisionsOf(lp.decider, lp.current_action)
    /\ LET r == InvokeAction(lp.current_action, decision)
           base == [lp EXCEPT !.turns = @ + 1,
                              !.given = lp.current_action,
                              !.givenAfter = r.actionAfter,
                              !.passed = r.returned,
                              !.toolsBefore = lp.tools,
                              !.returnedBefore = lp.returned,
                              !.returned = r.result,
                              !.lastDecision = decision,
                              !.tools = @ \o r.called]
       IN lp' = IF r.raised # "none"
                THEN [base EXCEPT !.pc = "raised", !.raised = r.raised, !.names = r.names]
                ELSE IF r.result.isAction
                THEN [base EXCEPT !.current_action = NextAction(lp.current_action, r.result)]
                ELSE IF r.returned.kind = "done"
                THEN [base EXCEPT !.pc = "returned", !.value = r.returned.value]
                ELSE [base EXCEPT !.pc = "returned", !.value = <<"unexpected", r.returned.kind>>]
    /\ UNCHANGED <<fr, registryVars, up, bd, cv, ad>>

\* the for loop is exhausted: return "Timeout"
LoopTimeout ==
    /\ lp.pc = "running"
    /\ ~MoreTurns(lp.turns, lp.max_turns)
    /\ lp' = [lp EXCEPT !.pc = "returned", !.value = "Timeout"]
    /\ UNCHANGED <<fr, registryVars, up, bd, cv, ad>>

NextLoop ==
    \/ \E max_turns \in 0..MaxTurns, decider \in {"any", "once"} : StartLoop(max_turns, decider)
    \/ \E decision \in Decisions : Turn(decision)
    \/ LoopTimeout

SpecLoop == Init /\ [][NextLoop]_vars

\* ------------------------------------------------------- the conversions
\* ledger_to_llm_messages(in_msgs)
ConvertLedger(in_msgs) ==
    /\ ad.pc = "none"
    /\ LET r == LedgerToLlmMessages(in_msgs)
       IN ad' = [pc |-> "converted", adapter |-> "ledger_to_llm_messages",
                 in_msgs |-> in_msgs, raised |-> r.raised, messages |-> r.messages]
    /\ UNCHANGED <<fr, registryVars, up, bd, cv, lp>>

\* observations_to_gemini_messages(in_msgs)
ConvertGemini(in_msgs) ==
    /\ ad.pc = "none"
    /\ LET r == ObservationsToGeminiMessages(in_msgs)
       IN ad' = [pc |-> "converted", adapter |-> "observations_to_gemini_messages",
                 in_msgs |-> in_msgs, raised |-> r.raised, messages |-> r.messages]
    /\ UNCHANGED <<fr, registryVars, up, bd, cv, lp>>

NextAdapter ==
    \/ \E in_msgs \in SeqsUpTo(Observations, MaxObs) : ConvertLedger(in_msgs)
    \/ \E in_msgs \in SeqsUpTo(Observations, MaxObs) : ConvertGemini(in_msgs)

SpecAdapter == Init /\ [][NextAdapter]_vars

\* ================================================================ claims
\* the frames whose policy body has returned its list to the engine
EngineRan(p) == fr[p].pc \in {"gathering", "done"} \/ Children(p) # {}

\* the tasks of execute_option
Tasks == DOMAIN fr \ {<<>>}

\* message i of list T is a call with no result of the same tool_id in T
IsPendingAt(T, i) ==
    /\ T[i].type = "action_call"
    /\ \A j \in 1..Len(T) : ~(T[j].type = "action_result" /\ T[j].tool_id = T[i].tool_id)

\* the positions of the pending calls of T, in list order
PendingPositions(T) == {i \in 1..Len(T) : IsPendingAt(T, i)}

\* the frames of p's children that were run for tool_id c
ChildrenFor(p, c) == {q \in Children(p) : fr[q].option.tool_id = c}

\* the number of action_result messages of list T that carry tool_id c
ResultCount(T, c) ==
    Cardinality({j \in 1..Len(T) : T[j].type = "action_result" /\ T[j].tool_id = c})

\* C1: when the list a policy returned holds an action_call with tool_id c
\* and an action_result with the same c, at either side of the call, no
\* policy is invoked for c on behalf of that list.
C1_CompletedCallNotInvoked ==
    \A p \in DOMAIN fr : EngineRan(p) =>
        \A i, j \in 1..Len(fr[p].selected) :
            ( /\ fr[p].selected[i].type = "action_call"
              /\ fr[p].selected[j].type = "action_result"
              /\ fr[p].selected[j].tool_id = fr[p].selected[i].tool_id )
            => \A q \in ChildrenFor(p, fr[p].selected[i].tool_id) : ~fr[q].invoked

\* C1 witness: a bound call returned a list in which the result of x stands
\* before the call of x, next to a pending call that was executed
C1_Witness ==
    /\ fr[<<>>].pc = "done"
    /\ fr[<<>>].selected = <<ResultX, CallX>>

\* C2: for pending calls with pairwise distinct tool_ids, once the bound call
\* returns every one of them had its policy invoked, and in the merged part
\* of the output a result of an earlier call never stands after a result of
\* a later call, whatever order the siblings finished in.
C2_AllInvokedInCallOrder ==
    \A p \in DOMAIN fr :
        LET T == fr[p].selected
            out == fr[p].ret
            pos == PendingPositions(T)
            CallPos(c) == CHOOSE i \in pos : T[i].tool_id = c
        IN ( /\ fr[p].pc = "done"
             /\ \A i, j \in pos : i # j => T[i].tool_id # T[j].tool_id )
           => /\ \A i \in pos : \E q \in Children(p) : fr[q].option = T[i] /\ fr[q].invoked
              /\ Cardinality(Children(p)) = Cardinality(pos)
              /\ \A a \in (Len(T) + 1)..Len(out) :
                    \E i \in pos : T[i].tool_id = out[a].tool_id
              /\ \A a, b \in (Len(T) + 1)..Len(out) :
                    a < b => CallPos(out[a].tool_id) <= CallPos(out[b].tool_id)

\* C2 witness: two pending calls with distinct tool_ids, the second finished
\* before the first, both contributed results to the returned list
C2_Witness ==
    /\ fr[<<>>].pc = "done"
    /\ fr[<<>>].selected = <<CallX, CallY>>
    /\ fr[<<2>>].overtook
    /\ fr[<<1>>].final # <<>>
    /\ fr[<<2>>].final # <<>>

\* C3 (as claimed): a call to a policy outside the allow-list of the
\* invocation is never invoked.
C3_DisallowedNeverInvoked ==
    \A q \in Tasks : PolicyName(fr[q].option) \notin AllowList => ~fr[q].invoked

\* the sum of the lengths of the results of the first k children of p
RECURSIVE Offset(_, _)
Offset(p, k) == IF k = 0 THEN 0 ELSE Offset(p, k - 1) + Len(fr[p \o <<k>>].final)

\* C4: the list a bound call returns is the policy's own list, unchanged and
\* in order, followed by the results of its pending calls, call after call;
\* A returning [action_call(x) to B] with B returning [text] gives
\* [action_call(x), action_result(x) with B's payload].
C4_MergeIsOwnListThenResults ==
    \A p \in DOMAIN fr : fr[p].pc = "done" =>
        LET T == fr[p].selected
            out == fr[p].ret
            n == NumChildren(p)
        IN /\ Len(out) = Len(T) + Offset(p, n)
           /\ \A i \in 1..Len(T) : out[i] = T[i]
           /\ \A k \in 1..n : \A i \in 1..Len(fr[p \o <<k>>].final) :
                 out[Len(T) + Offset(p, k - 1) + i] = fr[p \o <<k>>].final[i]
           /\ (p = <<>> /\ T = <<CallX>> /\ fr[<<1>>].ret = <<SubText>>)
                 => out = <<CallX, Message("search", "action_result", TextPayload("hello"), "x", "s1")>>

\* C4 witness: the scenario of the claim has run to its end
C4_Witness ==
    /\ fr[<<>>].pc = "done"
    /\ fr[<<>>].selected = <<CallX>>
    /\ fr[<<1>>].ret = <<SubText>>

C6_NoPendingIsNoOp ==
    \A p \in DOMAIN fr :
        (EngineRan(p) /\ PendingPositions(fr[p].selected) = {})
        => /\ Children(p) = {}
           /\ fr[p].pc = "done"
           /\ fr[p].ret = fr[p].selected

\* C6 witness: a list holding a call already matched by a result was returned
C6_Witness ==
    /\ fr[<<>>].pc = "done"
    /\ fr[<<>>].selected = <<CallX, ResultX>>
    /\ fr[<<>>].ret = <<CallX, ResultX>>

\* C7: a frame one of whose sibling tasks raised never returns a list; it
\* raises the very exception of the task that raised first.
C7_FirstErrorPropagates ==
    \A p \in DOMAIN fr : Children(p) # {} =>
        /\ (\E q \in Children(p) : fr[q].pc = "failed") => fr[p].pc # "done"
        /\ fr[p].pc = "failed" =>
              /\ fr[p].ret = <<>>
              /\ fr[p].final = <<>>
              /\ \E q \in Children(p) :
                    /\ fr[q].pc = "failed"
                    /\ fr[q].failedFirst
                    /\ fr[p].error = fr[q].error

\* C7 witness: the top-level call raised the exception of its second task,
\* which failed first; the first task failed later
C7_Witness ==
    /\ fr[<<>>].pc = "failed"
    /\ <<1>> \in DOMAIN fr /\ <<2>> \in DOMAIN fr
    /\ fr[<<1>>].pc = "failed"
    /\ fr[<<2>>].failedFirst
    /\ fr[<<>>].error = fr[<<2>>].error
    /\ fr[<<>>].error # fr[<<1>>].error

\* C8 (as claimed): in the list a top-level call returns, every action_call
\* has an action_result with the same tool_id.
C8_EveryCallHasResult ==
    fr[<<>>].pc = "done" =>
        \A i \in 1..Len(fr[<<>>].ret) :
            fr[<<>>].ret[i].type = "action_call"
            => \E j \in 1..Len(fr[<<>>].ret) :
                  /\ fr[<<>>].ret[j].type = "action_result"
                  /\ fr[<<>>].ret[j].tool_id = fr[<<>>].ret[i].tool_id

RECURSIVE TotalReturned(_)
TotalReturned(Q) ==
    IF Q = {} THEN 0
    ELSE LET q == CHOOSE x \in Q : TRUE
         IN Len(fr[q].ret) + TotalReturned(Q \ {q})

C10_AtMostOncePerToolId ==
    \A p \in DOMAIN fr : \A q \in Children(p) :
        Cardinality({r \in ChildrenFor(p, fr[q].option.tool_id) : fr[r].invoked}) <= 1

\* C11: every pending call of a batch gets its task when the batch is
\* gathered, and a task that has not started can start whatever state its
\* siblings are in: its start waits for no sibling to finish.
C11_SiblingsStartIndependently ==
    /\ \A p \in DOMAIN fr : Children(p) # {} =>
           NumChildren(p) = Len(Options(fr[p].selected))
    /\ \A q \in Tasks : fr[q].pc = "created" => ENABLED StartOption(q)

\* C11 witness: the second task of a batch has started and finished while
\* the first, listed before it, is still running
C11_Witness ==
    /\ <<1>> \in DOMAIN fr /\ <<2>> \in DOMAIN fr
    /\ fr[<<1>>].pc = "running"
    /\ fr[<<2>>].pc = "done" /\ fr[<<2>>].invoked

\* C12: a failure of one task cancels no sibling and keeps none from
\* starting: a sibling not yet started can start, a running sibling can
\* return its list, before and after the batch has failed; the failed batch
\* returns nothing, whatever its siblings produced.
C12_SiblingsNotCancelled ==
    /\ \A q \in DOMAIN fr : fr[q].pc \in {"pending", "created", "running", "gathering", "done", "failed"}
    /\ \A q \in Tasks : (\E s \in Siblings(q) : fr[s].pc = "failed") =>
           /\ fr[q].pc = "created" => ENABLED StartOption(q)
           /\ fr[q].pc = "running" =>
                  \A selected_actions \in Rets(q) : ENABLED BodyReturn(q, selected_actions)
    /\ \A p \in DOMAIN fr : fr[p].pc = "failed" => fr[p].ret = <<>>

\* C12 witness: the first task failed, the second ran its policy and
\* finished after that with results, and the batch failed without them
C12_Witness ==
    /\ fr[<<>>].pc = "failed" /\ fr[<<>>].ret = <<>>
    /\ <<1>> \in DOMAIN fr /\ <<2>> \in DOMAIN fr
    /\ fr[<<1>>].pc = "failed"
    /\ fr[<<2>>].pc = "done" /\ fr[<<2>>].invoked /\ ~fr[<<2>>].overtook
    /\ fr[<<2>>].final # <<>>

\* C13: a task whose call has arguments that are not a mapping (a scalar, a
\* list, none at all) ends in a TypeError that quotes the name of the policy
\* of the call, and the policy is not invoked.
C13_NonMappingArgsTypeError ==
    \A q \in Tasks :
        (fr[q].option.payload.args # "dict" /\ fr[q].pc # "created") =>
            /\ fr[q].pc = "failed"
            /\ fr[q].error.kind = "TypeError"
            /\ fr[q].error.at = q
            /\ fr[q].error.names = PolicyName(fr[q].option)
            /\ ~fr[q].invoked /\ fr[q].calls = 0

\* C13 witness: a call with a list for arguments and a call with no
\* arguments at all have both failed
C13_Witness ==
    /\ <<1>> \in DOMAIN fr /\ <<2>> \in DOMAIN fr
    /\ fr[<<1>>].option = CallListArgs /\ fr[<<1>>].pc = "failed"
    /\ fr[<<2>>].option = CallNoArgs /\ fr[<<2>>].pc = "failed"
    /\ fr[<<2>>].error.names = "search"

\* C14: a task whose call names no attribute of the context (an unknown name,
\* or no name at all) ends in an error without any policy body run for it,
\* the gathering caller has the error as soon as the task has failed, and
\* the caller does not return normally.
C14_UnknownPolicyIsFatal ==
    \A q \in Tasks :
        (PolicyName(fr[q].option) \notin BoundPolicies /\ fr[q].pc # "created") =>
            /\ fr[q].pc = "failed"
            /\ fr[q].error.kind \in {"AttributeError", "TypeError"}
            /\ fr[q].error.at = q
            /\ ~fr[q].invoked /\ fr[q].calls = 0
            /\ Children(q) = {}
            /\ fr[Parent(q)].gexc # NoError
            /\ fr[Parent(q)].pc \in {"gathering", "failed"}
            /\ fr[Parent(q)].pc = "failed" => fr[Parent(q)].error = fr[Parent(q)].gexc

\* C14 witness: a call of an unknown policy and a call with no policy name
\* have both failed, and the caller has raised the error of the first
C14_Witness ==
    /\ <<1>> \in DOMAIN fr /\ <<2>> \in DOMAIN fr
    /\ fr[<<1>>].option = CallMissing /\ fr[<<1>>].error = AttrError(<<1>>, "missing")
    /\ fr[<<2>>].option = CallNoPolicy /\ fr[<<2>>].error = AttrError(<<2>>, "None")
    /\ fr[<<>>].pc = "failed" /\ fr[<<>>].error = fr[<<1>>].error

\* C15: once a policy has returned its list, no step changes that list or a
\* message of it, and no step changes a list a bound call has returned; the
\* return of a bound call is the concatenation of the policy's list and the
\* results; assigning to a field of a message raises and changes nothing.
C15_ListsNeverMutated ==
    [][ /\ \A p \in DOMAIN fr :
             /\ EngineRan(p) => fr'[p].selected = fr[p].selected
             /\ fr[p].pc = "done" => fr'[p].ret = fr[p].ret
             /\ fr'[p].pc = "done" =>
                    /\ Len(fr'[p].ret) >= Len(fr'[p].selected)
                    /\ SubSeq(fr'[p].ret, 1, Len(fr'[p].selected)) = fr'[p].selected
             /\ \A i \in 1..Len(fr'[p].selected) :
                    \A value \in {"action_result", "text"} :
                        /\ AssignField(fr'[p].selected[i], "type", value).raised
                        /\ AssignField(fr'[p].selected[i], "type", value).msg = fr'[p].selected[i]
      ]_vars

\* C15 witness: a bound call has returned a list longer than the list of
\* its policy, whose task stamped copies of the messages of a sub-policy
C15_Witness ==
    /\ fr[<<>>].pc = "done"
    /\ fr[<<>>].selected # <<>>
    /\ Len(fr[<<>>].ret) > Len(fr[<<>>].selected)
    /\ <<1>> \in DOMAIN fr
    /\ fr[<<1>>].selected # <<>>
    /\ fr[<<1>>].final # fr[<<1>>].ret

\* C16: the policy of a task is called at most once, exactly once for a task
\* that passed the checks of its call and started, and a task that has
\* failed stays as it is: it is not called again.
C16_NoRetry ==
    /\ [](\A q \in DOMAIN fr :
            /\ fr[q].calls <= 1
            /\ fr[q].invoked <=> fr[q].calls = 1
            /\ (q \in Tasks /\ fr[q].pc # "created" /\ IsDict(fr[q].option.payload.args)
                   /\ HasAttr(PolicyName(fr[q].option))) => fr[q].calls = 1)
    /\ [][\A q \in DOMAIN fr : fr[q].pc = "failed" => fr'[q] = fr[q]]_vars

\* C16 witness: the policy of a task raised after its one call, and the
\* caller has raised that exception
C16_Witness ==
    /\ <<1>> \in DOMAIN fr
    /\ fr[<<1>>].pc = "failed" /\ fr[<<1>>].error = PolicyError(<<1>>)
    /\ fr[<<1>>].calls = 1
    /\ fr[<<>>].pc = "failed" /\ fr[<<>>].error = PolicyError(<<1>>)

\* C17 (as claimed): a registration under a name the registry already holds
\* ends in a name-collision error and leaves the entry of that name as it was.
C17_CollisionRaises ==
    (last.op = "register" /\ last.present) =>
        /\ last.outcome = "NameCollision"
        /\ Get(policies, last.name) = last.replaced

\* C18 (as claimed): the registration of a callable that carries the metadata
\* of a decorator is accepted, and the registry then holds the callable with
\* that metadata under the alias, or under the name of the metadata.
C18_DecoratedIsAccepted ==
    (last.op = "register" /\ attached[last.func] # NoMeta) =>
        LET name == IF last.alias = NoneVal THEN attached[last.func].name ELSE last.alias
        IN /\ last.outcome = "ok"
           /\ Get(policies, name) = RegisteredPolicy(last.func, attached[last.func])

\* C19: the three views of the registry are disjoint, together hold every
\* entry of the registry under its name, and hold nothing else: mcp_tools the
\* entries of kind tool, mcp_resources those of kind resource, internal_only
\* those of kind none_mcp.
C19_ViewsPartition ==
    LET tools == McpTools(policies)
        resources == McpResources(policies)
        internal == InternalOnly(policies)
    IN /\ DOMAIN tools \cup DOMAIN resources \cup DOMAIN internal = DOMAIN policies
       /\ DOMAIN tools \cap DOMAIN resources = {}
       /\ DOMAIN tools \cap DOMAIN internal = {}
       /\ DOMAIN resources \cap DOMAIN internal = {}
       /\ \A n \in DOMAIN policies :
             /\ n \in DOMAIN tools <=> policies[n].meta.kind = "tool"
             /\ n \in DOMAIN resources <=> policies[n].meta.kind = "resource"
             /\ n \in DOMAIN internal <=> policies[n].meta.kind = "none_mcp"
       /\ \A n \in DOMAIN tools : tools[n] = policies[n]
       /\ \A n \in DOMAIN resources : resources[n] = policies[n]
       /\ \A n \in DOMAIN internal : internal[n] = policies[n]

\* C19 witness: after three registrations each view holds one entry
C19_Witness ==
    /\ DOMAIN McpTools(policies) # {}
    /\ DOMAIN McpResources(policies) # {}
    /\ DOMAIN InternalOnly(policies) # {}

C25_DuplicateBindRaises ==
    /\ (bd.last.op = "bind" /\ bd.last.duplicate) =>
          /\ bd.last.raised = "ValueError"
          /\ bd.option_to_bound_policy = bd.last.before
    /\ \A n \in DOMAIN bd.option_to_bound_policy :
          OptionName(bd.option_to_bound_policy[n].policy_func) = n
    /\ \A a \in DOMAIN bd.attrs :
          bd.option_to_bound_policy[OptionName(bd.attrs[a].policy_func)] = bd.attrs[a]

\* C25 witness: web_search_alt was bound after web_search, which the map
\* still holds
C25_Witness ==
    /\ bd.last.op = "bind" /\ bd.last.policy = "web_search_alt"
    /\ bd.last.raised = "ValueError"
    /\ "web_search" \in DOMAIN bd.option_to_bound_policy
    /\ bd.option_to_bound_policy["web_search"] = Bound("web_search")

\* C26 (as claimed): once the callable _bind returned for policy P is stored
\* as attribute a, get_policy(a) returns P, and the callable refers to P.
C26_GetPolicyByAttributeName ==
    \A a \in DOMAIN bd.attrs :
        /\ bd.attrs[a].policy_func # NoneVal
        /\ GetPolicy(a, bd.option_to_bound_policy, bd.attrs).raised = "none"
        /\ GetPolicy(a, bd.option_to_bound_policy, bd.attrs).policy = bd.attrs[a].policy_func

\* C27 (as claimed): get_policy of a name under which the context has no
\* policy raises AttributeError, get_policy of an attribute that is not a
\* bound policy raises ValueError, and neither returns a callable.
C27_GetPolicyErrors ==
    bd.last.op = "get_policy" =>
        /\ ( bd.last.name \notin DOMAIN bd.attrs \cup DOMAIN bd.option_to_bound_policy
                                 \cup {"_runner"} )
             => (bd.last.raised = "AttributeError" /\ bd.last.result = NoneVal)
        /\ bd.last.name = "_runner"
             => (bd.last.raised = "ValueError" /\ bd.last.result = NoneVal)

\* the contexts of class cls that execution context ec can see: those
\* constructed in it, and for the task those its creator had made before
VisibleContexts(cls, ec) ==
    {i \in 1..Len(cv.made) :
        /\ cv.made[i].cls = cls
        /\ \/ cv.made[i].ec = ec
           \/ ec = "task" /\ cv.made[i].ec = "main" /\ i <= cv.forked}

\* C28: get_ctx of a class returns the context of that very class that was
\* constructed last among those the execution context can see, and the
\* construction of a context changes the current context of no other class.
C28_CurrentContextPerClass ==
    /\ [](cv.last.op = "get_ctx" /\ VisibleContexts(cv.last.cls, cv.last.ec) # {} =>
            /\ cv.last.raised = "none"
            /\ cv.last.result \in VisibleContexts(cv.last.cls, cv.last.ec)
            /\ \A i \in VisibleContexts(cv.last.cls, cv.last.ec) : i <= cv.last.result)
    /\ [][\A c \in ContextClasses :
            (Len(cv'.made) = Len(cv.made) + 1 /\ cv'.made[Len(cv'.made)].cls # c)
                => cv'.value[c] = cv.value[c]]_vars

\* C28 witness: with an AppA and then an AppB constructed, AppA.get_ctx()
\* returned the AppA
C28_Witness ==
    /\ Len(cv.made) >= 2
    /\ cv.made[1].cls = "AppA" /\ cv.made[2].cls = "AppB"
    /\ cv.last.op = "get_ctx" /\ cv.last.cls = "AppA" /\ cv.last.result = 1

\* the names the schema of the unpacked metadata lists as required
RequiredNames == {up.meta.input_schema.required[i] : i \in 1..Len(up.meta.input_schema.required)}
\* the names the schema of the unpacked metadata declares as properties
DeclaredNames == {up.meta.input_schema.properties[i].name : i \in 1..Len(up.meta.input_schema.properties)}

\* C21 (as claimed): when the argument object lacks a name the schema lists
\* as required, unpack_params ends in a ValueError that names a required
\* name that is lacking (the one lacking, if there is only one) and returns
\* no dictionary.
C21_MissingRequiredRaises ==
    (up.pc # "none" /\ RequiredNames \ DOMAIN up.params_dict # {}) =>
        /\ up.raised = "ValueError"
        /\ up.names \in RequiredNames \ DOMAIN up.params_dict
        /\ up.unpacked = NoParams

\* C22 (as claimed): when the argument object has every required name,
\* unpack_params does not raise, returns no name the schema does not declare,
\* returns every declared name the arguments have with its value, and the
\* callable called with the result runs with its default for every declared
\* name the arguments lack.
C22_DeclaredOnlyAndDefaulted ==
    (up.pc # "none" /\ RequiredNames \subseteq DOMAIN up.params_dict) =>
        /\ up.raised = "none"
        /\ DOMAIN up.unpacked \subseteq DeclaredNames
        /\ \A n \in DeclaredNames \cap DOMAIN up.params_dict :
              n \in DOMAIN up.unpacked /\ up.unpacked[n] = up.params_dict[n]
        /\ up.pc = "called" =>
              /\ up.callRaised = "none"
              /\ \A n \in DeclaredNames \ DOMAIN up.params_dict :
                    n \in DOMAIN up.bound /\ up.bound[n] = DefaultValue

Nullable(ann) == ann \in {"Optional[str]", "Optional[int]", "str | None"}

\* C23 (as claimed): in an inferred schema a parameter is in "required" if
\* and only if it has no default and its type does not admit None, and the
\* "required" key is there only if some parameter is.
C23_RequiredIffNoDefaultNotNullable ==
    \A f \in Decorated :
        (attached[f] # NoMeta /\ attached[f].input_schema # GivenSchema) =>
            LET schema == attached[f].input_schema
            IN /\ \A i \in 1..Len(SchemaParams(f)) :
                     (\E j \in 1..Len(schema.required) :
                         schema.required[j] = SchemaParams(f)[i].name)
                     <=> ( ~SchemaParams(f)[i].hasDefault
                           /\ ~Nullable(SchemaParams(f)[i].ann) )
               /\ schema.hasRequired <=> schema.required # <<>>

\* the history that holds, in order, one tool entry for each of the tools
HistoryOf(tools) == [k \in 1..Len(tools) |-> HistoryItem(tools[k])]

\* the tools called in the turns before the last one
ToolsBefore ==
    IF lp.returned.isAction THEN SubSeq(lp.tools, 1, Len(lp.tools) - 1) ELSE lp.tools

\* C29: loop_wrapper(max_turns) calls the wrapped policy at most max_turns
\* times; a turn whose result is a dict with done true ends the loop with
\* the dict's value; and a loop all of whose turns returned an Action
\* returns "Timeout" after exactly max_turns calls.
C29_LoopBoundedDoneOrTimeout ==
    /\ lp.turns <= lp.max_turns
    /\ lp.lastDecision.kind = "done" =>
          (lp.pc = "returned" /\ lp.value = lp.lastDecision.value)
    /\ (lp.pc = "returned" /\ Len(lp.tools) = lp.turns) =>
          (lp.value = "Timeout" /\ lp.turns = lp.max_turns)

\* C29 witness: a loop of at least two turns, each of which returned an
\* Action, has returned "Timeout"
C29_Witness ==
    /\ lp.pc = "returned"
    /\ lp.max_turns >= 2
    /\ lp.turns = lp.max_turns
    /\ Len(lp.tools) = lp.turns
    /\ lp.value = "Timeout"

\* the decider of every turn was given the Action the turn before returned
\* (the first one the Action the loop was called with), whose history holds,
\* in order, one tool entry for each tool call of the earlier turns
StateIsThreaded ==
    /\ lp.turns = 1 => lp.given = ActionOf(<<>>, AllowedEdges)
    /\ lp.turns >= 2 => lp.given = lp.returnedBefore
    /\ lp.turns >= 1 => lp.given.history = HistoryOf(ToolsBefore)

\* C30 (as claimed): with loop_wrapper around invoke_action around a
\* decider, the Action given to the decider at turn k+1 is the Action
\* returned at turn k, its history holds in order one tool entry for each
\* earlier tool call, and the loop around a decider that calls a tool once
\* and then signals done returns the done value after two calls of the
\* decider and one call of the tool.
C30_ThreadedAndTwoTurns ==
    /\ StateIsThreaded
    /\ (lp.decider = "once" /\ lp.pc = "returned") =>
          (lp.value = "Success" /\ lp.turns = 2 /\ lp.tools = <<"tool">>)

\* C30 (amended): the same, the last part for a loop of at least two turns;
\* a loop of fewer turns around that decider returns "Timeout".
C30_ThreadedAndTwoTurnsIfAllowed ==
    /\ StateIsThreaded
    /\ (lp.decider = "once" /\ lp.pc = "returned") =>
          IF lp.max_turns >= 2
          THEN lp.value = "Success" /\ lp.turns = 2 /\ lp.tools = <<"tool">>
          ELSE lp.value = "Timeout" /\ lp.turns = lp.max_turns

\* C30 witness: the decider that calls a tool once saw the tool's entry in
\* the history of its second call and ended the loop with its done value
C30_Witness ==
    /\ lp.decider = "once"
    /\ lp.pc = "returned"
    /\ lp.value = "Success"
    /\ lp.turns = 2
    /\ lp.tools = <<"tool">>
    /\ lp.given = lp.returnedBefore
    /\ lp.given.history = <<HistoryItem("tool")>>

\* C31: in invoke_action a decision that asks for a tool not in the
\* action's edges raises a ValueError whose message names the tool and the
\* allowed edges, and no tool is called for that decision.
C31_ForbiddenToolNeverCalled ==
    (lp.turns >= 1 /\ lp.lastDecision.kind = "tool_call"
       /\ lp.lastDecision.tool \notin lp.given.edges) =>
        /\ lp.pc = "raised"
        /\ lp.raised = "ValueError"
        /\ lp.names = Named(lp.lastDecision.tool, lp.given.edges)
        /\ lp.tools = lp.toolsBefore
        /\ \A k \in 1..Len(lp.tools) : lp.tools[k] \in lp.given.edges

\* C31 witness: after a turn that called an allowed tool the decider asked
\* for "rm", which the edges do not hold
C31_Witness ==
    /\ lp.pc = "raised"
    /\ lp.lastDecision = Decision("tool_call", "rm", NoneVal)
    /\ lp.turns = 2
    /\ lp.tools = <<"search_tool">>
    /\ lp.names = Named("rm", AllowedEdges)

\* C34: when invoke_action calls a tool it returns a new Action whose
\* history is the history of the input action followed by one entry of role
\* "tool" with the tool's name and result; the input action is what it was;
\* a decision without a tool call is returned as it is and no tool is called.
C34_NewActionInputUntouched ==
    /\ (lp.turns >= 1 /\ lp.tools # lp.toolsBefore) =>
          /\ lp.tools = Append(lp.toolsBefore, lp.lastDecision.tool)
          /\ lp.returned.isAction
          /\ lp.returned.history = Append(lp.given.history, HistoryItem(lp.lastDecision.tool))
          /\ lp.returned.edges = lp.given.edges
          /\ lp.givenAfter = lp.given
          /\ lp.given.history = HistoryOf(lp.toolsBefore)
    /\ (lp.turns >= 1 /\ lp.lastDecision.kind \notin {"tool_call", "raise"}) =>
          /\ lp.passed = lp.lastDecision
          /\ ~lp.returned.isAction
          /\ lp.tools = lp.toolsBefore
          /\ lp.givenAfter = lp.given

\* C34 witness: a second tool call extended a history of one entry
C34_Witness ==
    /\ lp.turns = 2
    /\ lp.given.history = <<HistoryItem("tool")>>
    /\ lp.returned.history = <<HistoryItem("tool"), HistoryItem("search_tool")>>
    /\ lp.givenAfter = lp.given

\* the provider message opens a tool call / answers one
IsToolCall(m) == m.kind \in {"tool_calls", "function_call"}
IsToolResult(m) == m.kind \in {"tool_call_id", "function_response"}

\* C32 (as claimed): an adapter given a list in which a call has no result
\* ends without error and emits nothing for that call, and in every output
\* each tool-call message is followed at once by the tool-result message of
\* the same call (same id, same function where the format carries them).
C32_UnansweredCallSkipped ==
    ad.pc = "converted" =>
        /\ (/\ ~ResultWithoutId(ad.in_msgs)
            /\ \A i \in 1..Len(ad.in_msgs) :
                  ad.in_msgs[i].type = "action_call" => ad.in_msgs[i].tool_id # NoneVal)
           => ad.raised = "none"
        /\ ad.raised = "none" =>
             /\ Cardinality({i \in 1..Len(ad.messages) : IsToolCall(ad.messages[i])})
                  = Cardinality({i \in 1..Len(ad.in_msgs) :
                                   /\ ad.in_msgs[i].type = "action_call"
                                   /\ ad.in_msgs[i].tool_id \in ToolResults(ad.in_msgs)})
             /\ \A i \in 1..Len(ad.messages) :
                   IsToolCall(ad.messages[i]) =>
                       /\ i < Len(ad.messages)
                       /\ IsToolResult(ad.messages[i + 1])
                       /\ ad.messages[i + 1].id = ad.messages[i].id
                       /\ ad.messages[i + 1].role \in {"tool", "function"}

\* the tool_ids of the calls of list T that the engine executes
OptionIds(T) == {Options(T)[k].tool_id : k \in 1..Len(Options(T))}

\* C33: the top-level bound call goes Pending -> Running -> Completed or
\* Failed and, policy bodies terminating and the tree of calls being finite,
\* ends in one of the two; a call completes only after every call its
\* policy emitted has completed, at whatever depth (no depth is refused), so
\* a chain of calls that never ends leaves the top-level call running.
C33_TopCallEnds ==
    /\ <>(fr[<<>>].pc \in {"done", "failed"})
    /\ [][fr'[<<>>].pc # fr[<<>>].pc =>
            <<fr[<<>>].pc, fr'[<<>>].pc>> \in
                {<<"pending", "running">>, <<"running", "gathering">>,
                 <<"running", "done">>, <<"running", "failed">>,
                 <<"gathering", "done">>, <<"gathering", "failed">>}]_vars
    /\ [](\A p \in DOMAIN fr :
            fr[p].pc = "done" => \A q \in Children(p) : fr[q].pc = "done")

\* C33 witness: the top-level call completed after calls nested to the
\* deepest level considered
C33_Witness ==
    /\ fr[<<>>].pc = "done"
    /\ \E q \in DOMAIN fr : Len(q) = MaxDepth /\ fr[q].pc = "done"

\* C35: whatever a sub-call contributes to the list its caller returns,
\* the sub-policy's own messages, its action_calls and the results of its
\* nested calls alike, is of type action_result under the tool_id of the
\* caller's action_call; so the list a bound call returns holds no
\* action_call after the messages its own policy returned.
C35_ContributionsStampedAtAnyDepth ==
    \A p \in DOMAIN fr : fr[p].pc = "done" =>
        /\ SubSeq(fr[p].ret, 1, Len(fr[p].selected)) = fr[p].selected
        /\ \A i \in (Len(fr[p].selected) + 1)..Len(fr[p].ret) :
              /\ fr[p].ret[i].type = "action_result"
              /\ fr[p].ret[i].tool_id \in OptionIds(fr[p].selected)
        /\ \A q \in Children(p) : \A i \in 1..Len(fr[q].final) :
              /\ fr[q].final[i].type = "action_result"
              /\ fr[q].final[i].tool_id = fr[q].option.tool_id

\* C35 witness: the top-level call returned, under the tool_id of its call
\* "y", the action_call of the sub-policy and the result of the nested call
\* made for it under tool_id "x"
C35_Witness ==
    /\ fr[<<>>].pc = "done"
    /\ fr[<<>>].selected = <<CallY>>
    /\ \E q \in Children(<<1>>) :
          /\ fr[q].option = SubCall
          /\ fr[q].final # <<>>
          /\ \A i \in 1..Len(fr[q].final) : fr[q].final[i].tool_id = "x"
    /\ \E i \in 1..Len(fr[<<>>].ret) :
          fr[<<>>].ret[i] = [SubCall EXCEPT !.type = "action_result", !.tool_id = "y"]
    /\ \A i \in 2..Len(fr[<<>>].ret) : fr[<<>>].ret[i].tool_id = "y"
    /\ Len(fr[<<>>].ret) >= 3

\* C36 (as claimed): a callable invoked for an action_call is a policy bound
\* on the context; a call that names another attribute of the context ends
\* in an error without that attribute being invoked.
C36_OnlyBoundPoliciesInvoked ==
    \A q \in Tasks :
        /\ fr[q].invoked => PolicyName(fr[q].option) \in BoundPolicies
        /\ (PolicyName(fr[q].option) \in ContextMethods \cup ContextFields
              /\ fr[q].pc # "created")
           => (fr[q].pc = "failed" /\ ~fr[q].invoked)

\* C37 (as claimed): an action_call of the list a policy returned has no
\* task made for it only if the list holds an action_result for that call,
\* and a result without tool_id is the result of no call: an action_call
\* without tool_id always gets its task.
C37_NoIdCallExecuted ==
    \A p \in DOMAIN fr : fr[p].pc \in {"gathering", "done"} =>
        \A i \in 1..Len(fr[p].selected) :
            (fr[p].selected[i].type = "action_call"
               /\ \A q \in Children(p) : fr[q].option # fr[p].selected[i])
            => /\ fr[p].selected[i].tool_id # NoneVal
               /\ \E j \in 1..Len(fr[p].selected) :
                     /\ fr[p].selected[j].type = "action_result"
                     /\ fr[p].selected[j].tool_id = fr[p].selected[i].tool_id

\* C38: the list L a bound call returned, every executed call of which gave
\* at least one result message, has no pending call: the engine run on L
\* finds no option, invokes nothing and returns the empty list.
C38_RerunIsNoOp ==
    \A p \in DOMAIN fr :
        (fr[p].pc = "done" /\ \A q \in Children(p) : fr[q].final # <<>>) =>
            Options(fr[p].ret) = <<>>

\* C38 witness: a returned list that holds two calls the engine executed and
\* their results
C38_Witness ==
    \E p \in DOMAIN fr :
        /\ fr[p].pc = "done"
        /\ NumChildren(p) = 2
        /\ \A q \in Children(p) : fr[q].final # <<>>
        /\ \E i \in 1..Len(fr[p].ret) : fr[p].ret[i].type = "action_call"
        /\ Options(fr[p].ret) = <<>>

\* C39 (as claimed): a task whose sub-policy returned a list with an element
\* that is no Message ends in a TypeError that names the policy, and the
\* bound call that made the task returns no list.
C39_NonMessageIsTypeError ==
    \A q \in Tasks :
        (\E i \in 1..Len(fr[q].selected) : ~IsMessage(fr[q].selected[i])) =>
            /\ fr[q].pc = "failed"
            /\ fr[q].error.kind = "TypeError"
            /\ fr[q].error.names = PolicyName(fr[q].option)
            /\ fr[Parent(q)].pc # "done"

====
